---- MODULE Spec2Model ----
(***************************************************************************)
(* Model of neuraxle/steps/data.py: DataShuffler, EpochRepeater,           *)
(* TrainShuffled and ZipData.                                              *)
(*                                                                         *)
(* The four classes are independent, so each has its own specification     *)
(* over its own variables (SpecRepeater, SpecShuffler, SpecTrainShuffled,  *)
(* SpecZip); the variables of the other classes stay at their initial      *)
(* value.                                                                  *)
(***************************************************************************)
EXTENDS Integers, Sequences, FiniteSets, TLC

VARIABLES
    \* ---- EpochRepeater --------------------------------------------------
    er,        \* the EpochRepeater's fields: epochs, fit_only, repeat_in_test_mode, is_train, wrapped
    erpc,      \* position of the running method
    ermethod,  \* the method that is running or has returned ("none" before the first call)
    eri,       \* loop iterations left in the running method
    erarg,     \* arguments of the call: di, eo (values) and dc (id of the data container, 0 without one)
    heap,      \* the data containers that exist: id -> [di, eo]
    calls,     \* the passes issued on the wrapped step by the running call, in order
    erbase,    \* self.wrapped when the call started
    erret,     \* what the call returned: id of the data container (0: none)
    hist,      \* completed calls: method, configuration and number of passes
    \* ---- DataShuffler (two instances, a and b) --------------------------
    ds,        \* instance name -> [seed, increment_seed_after_each_fit]
    dsctor,    \* instance name -> the seed argument given to the constructor
    dsout,     \* instance name -> the outputs of its transform calls, in order
    dsin,      \* the inputs of the transform calls, in order
    dsused,    \* instance name -> the seeds its shuffles ran with, in order
    \* ---- TrainShuffled --------------------------------------------------
    ts,        \* the pipeline's steps, as built by the constructor
    tsctor,    \* the constructor's arguments
    tspc,      \* index of the next stage to run (0: no run in progress)
    tsdata,    \* the (di, eo) pair flowing through the pipeline
    tslog,     \* the stages run so far in the current run, in order
    tstrain,   \* is_train of the pipeline
    tsruns,    \* number of pipeline runs started
    tsshuffles,\* number of shuffles the pipeline's DataShuffler has done
    \* ---- ZipData --------------------------------------------------------
    zd,        \* data_sources of the ZipData step
    zdc,       \* the data container handed to the step: di, eo, sub_data_containers
    zorig,     \* the data container as it was when the call started
    zpc,       \* "idle", "done" or "error"
    zmethod    \* the method called

erVars == <<er, erpc, ermethod, eri, erarg, heap, calls, erbase, erret, hist>>
dsVars == <<ds, dsctor, dsout, dsin, dsused>>
tsVars == <<ts, tsctor, tspc, tsdata, tslog, tstrain, tsruns, tsshuffles>>
zdVars == <<zd, zdc, zorig, zpc, zmethod>>
vars == <<erVars, dsVars, tsVars, zdVars>>

\* ---------------------------------------------------------------- bounds
MaxEpochs == 3
MaxCalls == 2

\* What an action of one class leaves alone: the variables of the others
ErFrame == UNCHANGED <<dsVars, tsVars, zdVars>>
DsFrame == UNCHANGED <<erVars, tsVars, zdVars>>
TsFrame == UNCHANGED <<erVars, dsVars, zdVars>>
ZdFrame == UNCHANGED <<erVars, dsVars, tsVars>>

\* ------------------------------------------------------------ small helpers
Last(s) == s[Len(s)]

(***************************************************************************)
(* EpochRepeater                                                           *)
(***************************************************************************)

\* The step the EpochRepeater wraps is a value: the number of fit passes it
\* has absorbed. Every fit pass returns the step that the next pass must be
\* applied to.
WrappedFit(step) == step + 1

\* data_container.copy(): a new container holding the same data.
DataContainerCopy(h, id) == Append(h, h[id])

\* EpochRepeater.__init__
EpochRepeaterInit(wrapped, epochs, fit_only, repeat_in_test_mode) ==
    [wrapped |-> wrapped, epochs |-> epochs, fit_only |-> fit_only,
     repeat_in_test_mode |-> repeat_in_test_mode, is_train |-> TRUE]

\* EpochRepeater._should_repeat_fit
should_repeat_fit(self) ==
    self.is_train \/ (~self.is_train /\ self.repeat_in_test_mode)

\* EpochRepeater._get_epochs
get_epochs(self) ==
    IF should_repeat_fit(self) THEN 1 ELSE self.epochs

ErInitArg == [di |-> 0, eo |-> 0, dc |-> 0]

ErIdleInit ==
    /\ er = EpochRepeaterInit(0, 1, FALSE, FALSE)
    /\ erpc = "idle" /\ ermethod = "none" /\ eri = 0
    /\ erarg = ErInitArg /\ heap = <<>> /\ calls = <<>>
    /\ erbase = 0 /\ erret = 0 /\ hist = <<>>

ErInit ==
    /\ \E e \in 1..MaxEpochs, fo \in BOOLEAN, rt \in BOOLEAN :
          er = EpochRepeaterInit(0, e, fo, rt)
    /\ erpc = "idle" /\ ermethod = "none" /\ eri = 0
    /\ erarg = ErInitArg /\ heap = <<>> /\ calls = <<>>
    /\ erbase = 0 /\ erret = 0 /\ hist = <<>>

\* BaseStep.set_train, between two calls
SetTrain ==
    /\ erpc = "idle"
    /\ Len(hist) < MaxCalls
    /\ \E b \in BOOLEAN : b # er.is_train /\ er' = [er EXCEPT !.is_train = b]
    /\ UNCHANGED <<erpc, ermethod, eri, erarg, heap, calls, erbase, erret, hist>>
    /\ ErFrame

\* A caller starts one of the four methods on data (di, eo).
\* The data container methods receive the data in a container (id 1).
ErBegin(m, n, pcnext) ==
    /\ erpc = "idle"
    /\ Len(hist) < MaxCalls
    /\ ermethod' = m
    /\ erarg' = [di |-> 1, eo |-> 2, dc |-> IF m \in {"fit_data_container", "fit_transform_data_container"} THEN 1 ELSE 0]
    /\ heap' = IF m \in {"fit_data_container", "fit_transform_data_container"} THEN <<[di |-> 1, eo |-> 2]>> ELSE <<>>
    /\ calls' = <<>>
    /\ erbase' = er.wrapped
    /\ erret' = 0
    /\ eri' = n
    /\ erpc' = pcnext
    /\ UNCHANGED <<er, hist>>
    /\ ErFrame

Pass(op, on, di, eo, dc, ret, out) ==
    [op |-> op, on |-> on, di |-> di, eo |-> eo, dc |-> dc, ret |-> ret, out |-> out]

\* ---- fit (lines 161-173)
FitCall == ErBegin("fit", get_epochs(er), "fit_loop")

FitLoop ==
    /\ erpc = "fit_loop" /\ ermethod = "fit" /\ eri > 0
    /\ calls' = Append(calls, Pass("fit", er.wrapped, erarg.di, erarg.eo, 0, WrappedFit(er.wrapped), 0))
    /\ er' = [er EXCEPT !.wrapped = WrappedFit(er.wrapped)]
    /\ eri' = eri - 1
    /\ UNCHANGED <<erpc, ermethod, erarg, heap, erbase, erret, hist>>
    /\ ErFrame

ErReturn(m, ret) ==
    /\ ermethod = m
    /\ erpc' = "idle"
    /\ erret' = ret
    /\ hist' = Append(hist, [method |-> m, epochs |-> er.epochs, fit_only |-> er.fit_only,
                             is_train |-> er.is_train, repeat_in_test_mode |-> er.repeat_in_test_mode,
                             n |-> Len(calls')])

FitReturn ==
    /\ erpc = "fit_loop" /\ eri = 0
    /\ UNCHANGED <<er, ermethod, eri, erarg, heap, calls, erbase>>
    /\ ErReturn("fit", 0)
    /\ ErFrame

\* ---- _fit_data_container (lines 144-159)
FitDCCall == ErBegin("fit_data_container", get_epochs(er), "fit_loop")

\* wrapped.handle_fit(data_container.copy(), context): the wrapped step may
\* replace the data inputs of the container it is given (mutates).
HandleFitOn(id, h, mutates) ==
    IF mutates THEN [h EXCEPT ![id].di = 0] ELSE h

FitDCLoop ==
    /\ erpc = "fit_loop" /\ ermethod = "fit_data_container" /\ eri > 0
    /\ \E mutates \in BOOLEAN :
          LET h1 == DataContainerCopy(heap, erarg.dc)
              c  == Len(h1)
          IN /\ calls' = Append(calls, Pass("handle_fit", er.wrapped, h1[c].di, h1[c].eo, c,
                                            WrappedFit(er.wrapped), 0))
             /\ heap' = HandleFitOn(c, h1, mutates)
    /\ er' = [er EXCEPT !.wrapped = WrappedFit(er.wrapped)]
    /\ eri' = eri - 1
    /\ UNCHANGED <<erpc, ermethod, erarg, erbase, erret, hist>>
    /\ ErFrame

FitDCReturn ==
    /\ erpc = "fit_loop" /\ eri = 0
    /\ UNCHANGED <<er, ermethod, eri, erarg, heap, calls, erbase>>
    /\ ErReturn("fit_data_container", 0)
    /\ ErFrame

\* ---- fit_transform (lines 127-142)
FitTransformRepeats(self) == IF ~self.fit_only THEN get_epochs(self) ELSE 0

FitTransformCall == ErBegin("fit_transform", FitTransformRepeats(er), "ft_loop")

FitTransformLoop ==
    /\ erpc = "ft_loop" /\ ermethod = "fit_transform" /\ eri > 0
    /\ calls' = Append(calls, Pass("fit", er.wrapped, erarg.di, erarg.eo, 0, WrappedFit(er.wrapped), 0))
    /\ er' = [er EXCEPT !.wrapped = WrappedFit(er.wrapped)]
    /\ eri' = eri - 1
    /\ UNCHANGED <<erpc, ermethod, erarg, heap, erbase, erret, hist>>
    /\ ErFrame

\* self.wrapped, outputs = self.wrapped.fit_transform(...); return self, outputs
FitTransformFinal ==
    /\ erpc = "ft_loop" /\ ermethod = "fit_transform" /\ eri = 0
    /\ calls' = Append(calls, Pass("fit_transform", er.wrapped, erarg.di, erarg.eo, 0, WrappedFit(er.wrapped), 0))
    /\ er' = [er EXCEPT !.wrapped = WrappedFit(er.wrapped)]
    /\ ErReturn("fit_transform", 0)
    /\ UNCHANGED <<ermethod, eri, erarg, heap, erbase>>
    /\ ErFrame

\* ---- _fit_transform_data_container (lines 108-125)
\* A repeat count that does not leave one pass to the final handle_fit_transform
FitTransformDCRepeatsAll(self) == IF ~self.fit_only THEN self.epochs ELSE 0

FitTransformDCRepeats(self) == IF ~self.fit_only THEN self.epochs - 1 ELSE 0

FitTransformDCCall == ErBegin("fit_transform_data_container", FitTransformDCRepeats(er), "ft_loop")

\* A loop that hands the caller's data container itself to handle_fit
FitTransformDCLoopNoCopy ==
    /\ erpc = "ft_loop" /\ ermethod = "fit_transform_data_container" /\ eri > 0
    /\ \E mutates \in BOOLEAN :
          LET c == erarg.dc
          IN /\ calls' = Append(calls, Pass("handle_fit", er.wrapped, heap[c].di, heap[c].eo, c,
                                            WrappedFit(er.wrapped), 0))
             /\ heap' = HandleFitOn(c, heap, mutates)
    /\ er' = [er EXCEPT !.wrapped = WrappedFit(er.wrapped)]
    /\ eri' = eri - 1
    /\ UNCHANGED <<erpc, ermethod, erarg, erbase, erret, hist>>
    /\ ErFrame

FitTransformDCLoop ==
    /\ erpc = "ft_loop" /\ ermethod = "fit_transform_data_container" /\ eri > 0
    /\ \E mutates \in BOOLEAN :
          LET h1 == DataContainerCopy(heap, erarg.dc)
              c  == Len(h1)
          IN /\ calls' = Append(calls, Pass("handle_fit", er.wrapped, h1[c].di, h1[c].eo, c,
                                            WrappedFit(er.wrapped), 0))
             /\ heap' = HandleFitOn(c, h1, mutates)
    /\ er' = [er EXCEPT !.wrapped = WrappedFit(er.wrapped)]
    /\ eri' = eri - 1
    /\ UNCHANGED <<erpc, ermethod, erarg, erbase, erret, hist>>
    /\ ErFrame

\* self.wrapped, data_container = self.wrapped.handle_fit_transform(data_container, context)
\* The wrapped step returns either the container it was given, transformed,
\* or a new one (fresh).
FitTransformDCFinal ==
    /\ erpc = "ft_loop" /\ ermethod = "fit_transform_data_container" /\ eri = 0
    /\ \E fresh \in BOOLEAN :
          LET d  == erarg.dc
              h1 == IF fresh THEN Append(heap, [di |-> 3, eo |-> heap[d].eo])
                             ELSE [heap EXCEPT ![d].di = 3]
              o  == IF fresh THEN Len(h1) ELSE d
          IN /\ calls' = Append(calls, Pass("handle_fit_transform", er.wrapped, heap[d].di, heap[d].eo, d,
                                            WrappedFit(er.wrapped), o))
             /\ heap' = h1
             /\ ErReturn("fit_transform_data_container", o)
    /\ er' = [er EXCEPT !.wrapped = WrappedFit(er.wrapped)]
    /\ UNCHANGED <<ermethod, eri, erarg, erbase>>
    /\ ErFrame

ErNext ==
    \/ SetTrain
    \/ FitCall \/ FitLoop \/ FitReturn
    \/ FitDCCall \/ FitDCLoop \/ FitDCReturn
    \/ FitTransformCall \/ FitTransformLoop \/ FitTransformFinal
    \/ FitTransformDCCall \/ FitTransformDCLoop \/ FitTransformDCFinal

(***************************************************************************)
(* DataShuffler                                                            *)
(***************************************************************************)

\* random.Random(seed): the generator is a deterministic function of the
\* seed. The stream is a small linear congruential one; what the shuffler
\* relies on is only that equal seeds give equal streams.
RandNext(g) == (g * 75 + 74) % 65537
RandomSeeded(seed) == RandNext(RandNext(seed % 65537))
\* Random._randbelow(n): a number in 0..n-1 drawn from the stream
RandBelow(g, n) == (RandNext(g) \div 7) % n

Swap(x, i, j) == [x EXCEPT ![i] = x[j], ![j] = x[i]]

\* Random.shuffle(x): for i in reversed(range(1, len(x))): j = randbelow(i + 1);
\* x[i], x[j] = x[j], x[i]   (positions here are 1-based)
RECURSIVE ShuffleFrom(_, _, _)
ShuffleFrom(x, i, g) ==
    IF i < 2 THEN x
    ELSE ShuffleFrom(Swap(x, i, RandBelow(g, i) + 1), i - 1, RandNext(g))

Shuffle(x, seed) == ShuffleFrom(x, Len(x), RandomSeeded(seed))

\* zip(di, eo) and its inverse zip(*data)
Min(a, b) == IF a <= b THEN a ELSE b
Zip(di, eo) == [k \in 1..Min(Len(di), Len(eo)) |-> <<di[k], eo[k]>>]
Unzip1(data) == [k \in 1..Len(data) |-> data[k][1]]
Unzip2(data) == [k \in 1..Len(data) |-> data[k][2]]

\* DataShuffler.__init__; the seed argument is <<>> for None, <<s>> for s
DefaultSeed == 42
DataShufflerInitSeed0(seedarg, increment_seed_after_each_fit) ==
    [seed |-> IF seedarg = <<>> THEN 0 ELSE seedarg[1],
     increment_seed_after_each_fit |-> increment_seed_after_each_fit]

DataShufflerInit(seedarg, increment_seed_after_each_fit) ==
    [seed |-> IF seedarg = <<>> THEN DefaultSeed ELSE seedarg[1],
     increment_seed_after_each_fit |-> increment_seed_after_each_fit]

\* A transform whose two lists are shuffled one by one, each with a generator of its own
DataShufflerTransformUnpaired(self, di, eo) ==
    LET seed == IF self.increment_seed_after_each_fit THEN self.seed + 1 ELSE self.seed
    IN [self |-> [self EXCEPT !.seed = seed],
        used |-> seed,
        di |-> Shuffle(di, seed),
        eo |-> Shuffle(eo, seed + 1)]

\* DataShuffler.transform((di, eo)): the new fields of self, the seed the
\* shuffle ran with, and the two lists returned
DataShufflerTransform(self, di, eo) ==
    LET seed == IF self.increment_seed_after_each_fit THEN self.seed + 1 ELSE self.seed
        data == Shuffle(Zip(di, eo), seed)
    IN [self |-> [self EXCEPT !.seed = seed],
        used |-> seed,
        di |-> Unzip1(data),
        eo |-> Unzip2(data)]

MaxLen == 3
MaxTransforms == 2

Instances == {"a", "b"}
SeedArgs == {<<>>, <<41>>, <<42>>}

\* The pairs of parallel sequences given to transform: n >= 1 elements,
\* with and without repeated values.
ShufflerInputs ==
    UNION {{ [di |-> [k \in 1..n |-> k],     eo |-> [k \in 1..n |-> 10 + k]],
             [di |-> [k \in 1..n |-> 1],     eo |-> [k \in 1..n |-> 10 + k]],
             [di |-> [k \in 1..n |-> k % 2], eo |-> [k \in 1..n |-> k % 2]] } : n \in 1..MaxLen}

DsIdleInit ==
    /\ ds = [i \in Instances |-> DataShufflerInit(<<>>, TRUE)]
    /\ dsctor = [i \in Instances |-> [seed |-> <<>>, increment_seed_after_each_fit |-> TRUE]]
    /\ dsout = [i \in Instances |-> <<>>]
    /\ dsin = <<>>
    /\ dsused = [i \in Instances |-> <<>>]

DsInit ==
    /\ \E sa \in SeedArgs, sb \in SeedArgs, fa \in BOOLEAN, fb \in BOOLEAN :
          /\ dsctor = [i \in Instances |->
                         IF i = "a" THEN [seed |-> sa, increment_seed_after_each_fit |-> fa]
                                    ELSE [seed |-> sb, increment_seed_after_each_fit |-> fb]]
          /\ ds = [i \in Instances |->
                         IF i = "a" THEN DataShufflerInit(sa, fa) ELSE DataShufflerInit(sb, fb)]
    /\ dsout = [i \in Instances |-> <<>>]
    /\ dsin = <<>>
    /\ dsused = [i \in Instances |-> <<>>]

\* Both instances are given the same input.
Transform ==
    /\ Len(dsin) < MaxTransforms
    /\ \E x \in ShufflerInputs :
          LET r == [i \in Instances |-> DataShufflerTransform(ds[i], x.di, x.eo)]
          IN /\ dsin' = Append(dsin, x)
             /\ ds' = [i \in Instances |-> r[i].self]
             /\ dsout' = [i \in Instances |-> Append(dsout[i], [di |-> r[i].di, eo |-> r[i].eo])]
             /\ dsused' = [i \in Instances |-> Append(dsused[i], r[i].used)]
    /\ UNCHANGED dsctor
    /\ DsFrame

DsNext == Transform

(***************************************************************************)
(* TrainShuffled                                                           *)
(***************************************************************************)

MaxRuns == 2

\* A constructor that lists the two stages the other way round
TrainShuffledInitSwapped(wrapped, seedarg) ==
    << [kind |-> wrapped, shuffler |-> <<>>],
       [kind |-> "TrainOnlyWrapper", shuffler |-> <<DataShufflerInit(seedarg, TRUE)>>] >>

\* TrainShuffled.__init__: Pipeline([TrainOnlyWrapper(DataShuffler(seed=seed)), wrapped])
TrainShuffledInit(wrapped, seedarg) ==
    << [kind |-> "TrainOnlyWrapper", shuffler |-> <<DataShufflerInit(seedarg, TRUE)>>],
       [kind |-> wrapped, shuffler |-> <<>>] >>

TsIdleInit ==
    /\ tsctor = <<>>
    /\ ts = TrainShuffledInit("wrapped", <<>>)
    /\ tspc = 0 /\ tsdata = [di |-> <<>>, eo |-> <<>>] /\ tslog = <<>>
    /\ tstrain = TRUE /\ tsruns = 0 /\ tsshuffles = 0

TsInit ==
    /\ tsctor \in SeedArgs
    /\ ts = TrainShuffledInit("wrapped", tsctor)
    /\ tspc = 0 /\ tsdata = [di |-> <<>>, eo |-> <<>>] /\ tslog = <<>>
    /\ tstrain = TRUE /\ tsruns = 0 /\ tsshuffles = 0

\* set_train on the pipeline, between two runs
TsSetTrain ==
    /\ tspc = 0 /\ tsruns < MaxRuns
    /\ tstrain' = ~tstrain
    /\ UNCHANGED <<ts, tsctor, tspc, tsdata, tslog, tsruns, tsshuffles>>
    /\ TsFrame

\* Pipeline: a run hands the data to the steps in list order.
PipelineBegin ==
    /\ tspc = 0 /\ tsruns < MaxRuns
    /\ \E x \in ShufflerInputs : tsdata' = x
    /\ tspc' = 1 /\ tslog' = <<>> /\ tsruns' = tsruns + 1
    /\ UNCHANGED <<ts, tsctor, tstrain, tsshuffles>>
    /\ TsFrame

PipelineAdvance == tspc' = IF tspc = Len(ts) THEN 0 ELSE tspc + 1

\* TrainOnlyWrapper: runs the step it wraps in train mode only.
TrainOnlyWrapperStage ==
    /\ tspc \in 1..Len(ts) /\ ts[tspc].kind = "TrainOnlyWrapper"
    /\ tslog' = Append(tslog, ts[tspc].kind)
    /\ IF tstrain
       THEN LET r == DataShufflerTransform(ts[tspc].shuffler[1], tsdata.di, tsdata.eo)
            IN /\ ts' = [ts EXCEPT ![tspc].shuffler = <<r.self>>]
               /\ tsdata' = [di |-> r.di, eo |-> r.eo]
               /\ tsshuffles' = tsshuffles + 1
       ELSE UNCHANGED <<ts, tsdata, tsshuffles>>
    /\ PipelineAdvance
    /\ UNCHANGED <<tsctor, tstrain, tsruns>>
    /\ TsFrame

\* The wrapped step runs on the data it is handed.
WrappedStage ==
    /\ tspc \in 1..Len(ts) /\ ts[tspc].kind = "wrapped"
    /\ tslog' = Append(tslog, ts[tspc].kind)
    /\ PipelineAdvance
    /\ UNCHANGED <<ts, tsctor, tsdata, tstrain, tsruns, tsshuffles>>
    /\ TsFrame

TsNext == TsSetTrain \/ PipelineBegin \/ TrainOnlyWrapperStage \/ WrappedStage

(***************************************************************************)
(* ZipData                                                                 *)
(***************************************************************************)

\* A numpy array: its shape and its elements in row-major order.
RECURSIVE Prod(_)
Prod(shape) == IF shape = <<>> THEN 1 ELSE Head(shape) * Prod(Tail(shape))

MkArray(shape, base) == [shape |-> shape, data |-> [k \in 1..Prod(shape) |-> base + k]]

\* Position (0-based, one number per axis) of the element at 0-based flat index k
Unravel(k, shape) ==
    [j \in 1..Len(shape) |-> (k \div Prod(SubSeq(shape, j + 1, Len(shape)))) % shape[j]]

RECURSIVE RavelFrom(_, _, _, _)
RavelFrom(idx, shape, j, acc) ==
    IF j > Len(shape) THEN acc ELSE RavelFrom(idx, shape, j + 1, acc * shape[j] + idx[j])
Ravel(idx, shape) == RavelFrom(idx, shape, 1, 0)

\* np.expand_dims(a, axis=-1)
ExpandDimsLast(a) == [a EXCEPT !.shape = Append(@, 1)]

\* while len(np_array_to_zip.shape) < len(np_array.shape): expand_dims(axis=-1)
RECURSIVE ExpandTo(_, _)
ExpandTo(a, ndim) == IF Len(a.shape) < ndim THEN ExpandTo(ExpandDimsLast(a), ndim) ELSE a

\* np.broadcast_to(a, target) raises unless, axes aligned from the right,
\* every axis of a has the target's length or length 1
BroadcastOk(shape, target) ==
    /\ Len(shape) <= Len(target)
    /\ \A j \in 1..Len(shape) :
          shape[j] = target[Len(target) - Len(shape) + j] \/ shape[j] = 1

BroadcastTo(a, target) ==
    LET off == Len(target) - Len(a.shape)
    IN [shape |-> target,
        data |-> [k \in 1..Prod(target) |->
                    LET idx == Unravel(k - 1, target)
                        src == [j \in 1..Len(a.shape) |-> IF a.shape[j] = 1 THEN 0 ELSE idx[off + j]]
                    IN a.data[Ravel(src, a.shape) + 1]]]

\* np.concatenate((a, b), axis=-1) of two arrays that differ in the last axis only
Concatenate(a, b) ==
    LET la == Last(a.shape)
        lb == Last(b.shape)
    IN [shape |-> [a.shape EXCEPT ![Len(a.shape)] = la + lb],
        data |-> [k \in 1..(Len(a.data) + Len(b.data)) |->
                    LET row == (k - 1) \div (la + lb)
                        col == (k - 1) % (la + lb)
                    IN IF col < la THEN a.data[row * la + col + 1]
                                   ELSE b.data[row * lb + (col - la) + 1]]]

\* ZipData._zip_np_arrays: target_shape
TargetShape(np_array, expanded) ==
    Append(SubSeq(np_array.shape, 1, Len(np_array.shape) - 1), Last(expanded.shape))

\* ZipData._zip_np_arrays raises (np.broadcast_to does)
zip_np_arrays_raises(np_array, np_array_to_zip) ==
    LET expanded == ExpandTo(np_array_to_zip, Len(np_array.shape))
    IN ~BroadcastOk(expanded.shape, TargetShape(np_array, expanded))

\* ZipData._zip_np_arrays, when it returns
zip_np_arrays(np_array, np_array_to_zip) ==
    LET expanded == ExpandTo(np_array_to_zip, Len(np_array.shape))
    IN Concatenate(np_array, BroadcastTo(expanded, TargetShape(np_array, expanded)))

\* ZipData._zip_data_container on r = [dc, ok]: the data inputs are set
\* before the expected outputs are zipped, so an error in the second half
\* leaves the first half done.
zip_data_container(r, data_container_to_zip) ==
    IF ~r.ok THEN r
    ELSE IF zip_np_arrays_raises(r.dc.di, data_container_to_zip.di) THEN [r EXCEPT !.ok = FALSE]
    ELSE LET dc1 == [r.dc EXCEPT !.di = zip_np_arrays(r.dc.di, data_container_to_zip.di)]
         IN IF zip_np_arrays_raises(dc1.eo, data_container_to_zip.eo)
            THEN [dc |-> dc1, ok |-> FALSE]
            ELSE [dc |-> [dc1 EXCEPT !.eo = zip_np_arrays(dc1.eo, data_container_to_zip.eo)], ok |-> TRUE]

\* A selection that takes every sub data container, named or not
sub_data_containers_to_zip_all(data_sources, data_container) ==
    [k \in 1..Len(data_container.subs) |-> data_container.subs[k][2]]

\* ZipData._zip_sub_data_containers, first loop: the sub data containers
\* whose name is in data_sources, in the container's order
sub_data_containers_to_zip(data_sources, data_container) ==
    LET named == SelectSeq(data_container.subs, LAMBDA s : s[1] \in data_sources)
    IN [k \in 1..Len(named) |-> named[k][2]]

RECURSIVE ZipAll(_, _)
ZipAll(r, tozip) ==
    IF tozip = <<>> THEN r ELSE ZipAll(zip_data_container(r, Head(tozip)), Tail(tozip))

\* ZipData._zip_sub_data_containers
zip_sub_data_containers(data_sources, data_container) ==
    ZipAll([dc |-> data_container, ok |-> TRUE],
           sub_data_containers_to_zip(data_sources, data_container))

MaxSubs == 2

PrimaryDataInputs == {MkArray(<<2, 2>>, 0), MkArray(<<2, 2, 2>>, 0), MkArray(<<2>>, 0)}
PrimaryExpectedOutputs == {MkArray(<<2, 1>>, 20), MkArray(<<2>>, 20)}
SubDataInputs == {MkArray(<<2>>, 40), MkArray(<<2, 3>>, 40), MkArray(<<3, 2>>, 40)}
SubExpectedOutputs == {MkArray(<<2>>, 60), MkArray(<<1, 2>>, 60)}
SubNames == {"a", "b"}
DataSources == {{}, {"a"}, {"a", "c"}, {"a", "b"}}

NamedSubs == {<<n, [di |-> x, eo |-> y]>> : n \in SubNames, x \in SubDataInputs, y \in SubExpectedOutputs}
SubLists == UNION {[1..n -> NamedSubs] : n \in 0..MaxSubs}

EmptyArray == [shape |-> <<1>>, data |-> <<0>>]
EmptyContainer == [di |-> EmptyArray, eo |-> EmptyArray, subs |-> <<>>]

ZdIdleInit ==
    /\ zd = {} /\ zdc = EmptyContainer /\ zorig = EmptyContainer
    /\ zpc = "idle" /\ zmethod = "none"

ZdInit ==
    /\ zd \in DataSources
    /\ \E x \in PrimaryDataInputs, y \in PrimaryExpectedOutputs, s \in SubLists :
          zdc = [di |-> x, eo |-> y, subs |-> s]
    /\ zorig = zdc
    /\ zpc = "idle" /\ zmethod = "none"

ZipCall(m) ==
    /\ zpc = "idle"
    /\ LET r == zip_sub_data_containers(zd, zdc)
       IN /\ zdc' = r.dc
          /\ zpc' = IF r.ok THEN "done" ELSE "error"
    /\ zmethod' = m
    /\ UNCHANGED <<zd, zorig>>
    /\ ZdFrame

\* ZipData._transform_data_container
ZipTransform == ZipCall("transform_data_container")

\* ZipData._fit_transform_data_container
ZipFitTransform == ZipCall("fit_transform_data_container")

ZdNext == ZipTransform \/ ZipFitTransform

(***************************************************************************)
(* Specifications                                                          *)
(***************************************************************************)

InitRepeater == ErInit /\ DsIdleInit /\ TsIdleInit /\ ZdIdleInit
SpecRepeater == InitRepeater /\ [][ErNext]_vars

InitShuffler == ErIdleInit /\ DsInit /\ TsIdleInit /\ ZdIdleInit
SpecShuffler == InitShuffler /\ [][DsNext]_vars

InitTrainShuffled == ErIdleInit /\ DsIdleInit /\ TsInit /\ ZdIdleInit
SpecTrainShuffled == InitTrainShuffled /\ [][TsNext]_vars

InitZip == ErIdleInit /\ DsIdleInit /\ TsIdleInit /\ ZdInit
SpecZip == InitZip /\ [][ZdNext]_vars

(***************************************************************************)
(* Properties                                                              *)
(***************************************************************************)

\* C1: in train mode, one call of fit invokes the wrapped step's fit exactly
\* `epochs` times, and one call of _fit_data_container invokes handle_fit
\* exactly `epochs` times.
C1_TrainModeFitsEpochsTimes ==
    \A k \in 1..Len(hist) :
        (hist[k].method \in {"fit", "fit_data_container"} /\ hist[k].is_train)
            => hist[k].n = hist[k].epochs

\* C2: in test mode, one call of fit or _fit_data_container fits the wrapped
\* step once when repeat_in_test_mode is false and `epochs` times when it is
\* true.
C2_TestModeFits ==
    \A k \in 1..Len(hist) :
        (hist[k].method \in {"fit", "fit_data_container"} /\ ~hist[k].is_train)
            => hist[k].n = IF hist[k].repeat_in_test_mode THEN hist[k].epochs ELSE 1

\* C3: with fit_only false, one call of _fit_transform_data_container makes
\* `epochs` passes: epochs - 1 calls of handle_fit, then one call of
\* handle_fit_transform, which is the last call made and whose data
\* container is the one returned.
C3_FitTransformDataContainer ==
    ermethod = "fit_transform_data_container" =>
        /\ \A k \in 1..Len(calls) :
              calls[k].op = "handle_fit_transform" => (k = Len(calls) /\ erpc = "idle")
        /\ (erpc = "idle" /\ ~er.fit_only) =>
              /\ Len(calls) = er.epochs
              /\ Last(hist).n = er.epochs
              /\ \A k \in 1..(Len(calls) - 1) : calls[k].op = "handle_fit"
              /\ Last(calls).op = "handle_fit_transform"
              /\ erret = Last(calls).out

C3_Witness ==
    /\ ermethod = "fit_transform_data_container" /\ erpc = "idle"
    /\ ~er.fit_only /\ er.epochs = MaxEpochs
    /\ Len(calls) = MaxEpochs
    /\ erret # erarg.dc

\* C9: for every configuration, fit_transform and
\* _fit_transform_data_container make the same total number of passes.
C9_SamePassCount ==
    \A j \in 1..Len(hist), k \in 1..Len(hist) :
        ( /\ hist[j].method = "fit_transform"
          /\ hist[k].method = "fit_transform_data_container"
          /\ hist[j].epochs = hist[k].epochs
          /\ hist[j].fit_only = hist[k].fit_only
          /\ hist[j].is_train = hist[k].is_train
          /\ hist[j].repeat_in_test_mode = hist[k].repeat_in_test_mode )
        => hist[j].n = hist[k].n

\* C10: every pass of one call receives the data inputs and expected outputs
\* of the call (handle_fit in a container no earlier pass has seen and that
\* is not the caller's, handle_fit_transform in the caller's container), and
\* is applied to the step the previous pass returned, which becomes
\* self.wrapped.
C10_SameDataChained ==
    /\ \A k \in 1..Len(calls) :
          /\ calls[k].di = erarg.di
          /\ calls[k].eo = erarg.eo
          /\ calls[k].on = IF k = 1 THEN erbase ELSE calls[k - 1].ret
          /\ calls[k].op = "handle_fit" =>
                /\ calls[k].dc # erarg.dc
                /\ \A j \in 1..(k - 1) : calls[j].dc # calls[k].dc
          /\ calls[k].op = "handle_fit_transform" => calls[k].dc = erarg.dc
          /\ calls[k].op \in {"fit", "fit_transform"} => calls[k].dc = 0
    /\ er.wrapped = IF calls = <<>> THEN erbase ELSE Last(calls).ret

C10_Witness ==
    /\ ermethod = "fit_transform_data_container" /\ erpc = "idle"
    /\ Len(calls) = MaxEpochs
    /\ heap[calls[1].dc].di # erarg.di
    /\ Last(calls).di = erarg.di
    /\ erbase > 0

\* ------------------------------------------------------------ DataShuffler

Perms(n) == {p \in [1..n -> 1..n] : \A x, y \in 1..n : p[x] = p[y] => x = y}

CtorSeed(i) == IF dsctor[i].seed = <<>> THEN DefaultSeed ELSE dsctor[i].seed[1]

\* C4: transform returns two lists of the inputs' length n, and one
\* permutation p of the positions gives both: out_di[j] = di[p(j)] and
\* out_eo[j] = eo[p(j)].
C4_ShuffledInLockstep ==
    \A i \in Instances : \A k \in 1..Len(dsin) :
        LET n == Len(dsin[k].di)
            o == dsout[i][k]
        IN /\ Len(o.di) = n
           /\ Len(o.eo) = n
           /\ \E p \in Perms(n) : \A j \in 1..n :
                 o.di[j] = dsin[k].di[p[j]] /\ o.eo[j] = dsin[k].eo[p[j]]

C4_Witness ==
    \E k \in 1..Len(dsin) :
        /\ Len(dsin[k].di) = MaxLen
        /\ dsin[k].di[1] # dsin[k].di[2]
        /\ dsout["a"][k].di # dsin[k].di
        /\ dsout["a"][k].eo # dsin[k].eo

C8_IncrementsAfterShuffle ==
    \A i \in Instances :
        dsctor[i].increment_seed_after_each_fit =>
            /\ \A k \in 1..Len(dsused[i]) : dsused[i][k] = CtorSeed(i) + (k - 1)
            /\ ds[i].seed = CtorSeed(i) + Len(dsused[i])

\* ----------------------------------------------------------- TrainShuffled

\* C7: the pipeline has exactly two stages, first a TrainOnlyWrapper around a
\* DataShuffler carrying the given seed (42 for None), then the wrapped
\* step; the wrapped step never runs before the shuffle stage.
C7_TwoStagesInOrder ==
    /\ Len(ts) = 2
    /\ ts[1].kind = "TrainOnlyWrapper" /\ Len(ts[1].shuffler) = 1
    /\ ts[2].kind = "wrapped" /\ ts[2].shuffler = <<>>
    /\ tsshuffles = 0 =>
          ts[1].shuffler[1].seed = IF tsctor = <<>> THEN 42 ELSE tsctor[1]
    /\ \A k \in 1..Len(tslog) :
          tslog[k] = "wrapped" => (k > 1 /\ tslog[k - 1] = "TrainOnlyWrapper")

C7_Witness ==
    /\ tsctor = <<>>
    /\ tslog = <<"TrainOnlyWrapper", "wrapped">>
    /\ tspc = 0 /\ tstrain /\ tsshuffles = 1
    /\ Len(tsdata.di) = MaxLen /\ tsdata.di # [k \in 1..MaxLen |-> k]
    /\ \A k \in 1..MaxLen : tsdata.eo[k] = 10 + tsdata.di[k]

\* ----------------------------------------------------------------- ZipData

Leading(shape) == SubSeq(shape, 1, Len(shape) - 1)

\* The sub data containers named in data_sources, as the caller handed them over
NamedSubsOf(dc) == SelectSeq(dc.subs, LAMBDA s : s[1] \in zd)

RECURSIVE SumLastAxis(_)
SumLastAxis(arrays) ==
    IF arrays = <<>> THEN 0
    ELSE Last(Head(arrays).shape) + SumLastAxis(Tail(arrays))

\* Last-axis length of each array once trailing axes of length 1 have brought
\* it to ndim axes
RECURSIVE SumExpandedLastAxis(_, _)
SumExpandedLastAxis(arrays, ndim) ==
    IF arrays = <<>> THEN 0
    ELSE (IF Len(Head(arrays).shape) < ndim THEN 1 ELSE Last(Head(arrays).shape))
         + SumExpandedLastAxis(Tail(arrays), ndim)

NamedDataInputs == [k \in 1..Len(NamedSubsOf(zorig)) |-> NamedSubsOf(zorig)[k][2].di]
NamedExpectedOutputs == [k \in 1..Len(NamedSubsOf(zorig)) |-> NamedSubsOf(zorig)[k][2].eo]

\* The array `new` keeps the leading axes of `old` and holds old's values in
\* the first positions of its last axis
KeepsOriginal(old, new) ==
    /\ Len(new.shape) = Len(old.shape)
    /\ Leading(new.shape) = Leading(old.shape)
    /\ Last(new.shape) >= Last(old.shape)
    /\ \A k \in 1..Len(old.data) :
          LET row == (k - 1) \div Last(old.shape)
              col == (k - 1) % Last(old.shape)
          IN new.data[row * Last(new.shape) + col + 1] = old.data[k]

\* C6 as stated: after the transform, data inputs and expected outputs keep
\* their leading axes and original values, and the last axis has grown by
\* the sum of the last-axis lengths of the named sub data containers.
C6_LastAxisGrowsBySubLastAxes ==
    zpc = "done" =>
        /\ KeepsOriginal(zorig.di, zdc.di)
        /\ KeepsOriginal(zorig.eo, zdc.eo)
        /\ Last(zdc.di.shape) = Last(zorig.di.shape) + SumLastAxis(NamedDataInputs)
        /\ Last(zdc.eo.shape) = Last(zorig.eo.shape) + SumLastAxis(NamedExpectedOutputs)

\* C6, amended: the last axis grows, per named sub data container, by the
\* last-axis length of its array if the array has as many axes as the
\* primary one, and by 1 if it has fewer; unnamed sub data containers
\* contribute nothing, and when no sub data container is named the call
\* returns the container unchanged, without error.
C6_LastAxisGrowsByExpandedSubs ==
    /\ zpc = "done" =>
          /\ KeepsOriginal(zorig.di, zdc.di)
          /\ KeepsOriginal(zorig.eo, zdc.eo)
          /\ Last(zdc.di.shape) = Last(zorig.di.shape)
                + SumExpandedLastAxis(NamedDataInputs, Len(zorig.di.shape))
          /\ Last(zdc.eo.shape) = Last(zorig.eo.shape)
                + SumExpandedLastAxis(NamedExpectedOutputs, Len(zorig.eo.shape))
          /\ zdc.subs = zorig.subs
    /\ NamedSubsOf(zorig) = <<>> => (zpc # "error" /\ zdc = zorig)

C6_Witness ==
    /\ zpc = "done"
    /\ "c" \in zd
    /\ Len(NamedSubsOf(zorig)) = 1
    /\ Len(zorig.subs) = 2
    /\ Len(NamedDataInputs[1].shape) < Len(zorig.di.shape)
    /\ Last(NamedDataInputs[1].shape) > 1
    /\ Last(zdc.di.shape) = Last(zorig.di.shape) + 1

====
